---------------------------- MODULE Spec2Model ----------------------------
(***************************************************************************)
(* A model of model_analyzer's result-ranking pipeline and configuration   *)
(* parser:                                                                 *)
(*   - ResultComparator  (result/result_comparator.py)                     *)
(*   - RunResult         (result/run_result.py)                            *)
(*   - ResultManager     (result/result_manager.py)                        *)
(*   - parse_dict / parse_list (triton/model/model_config_utils.py)        *)
(*   - ModelConfig       (triton/model/model_config.py)                    *)
(*                                                                         *)
(* Conventions.  Python lists are sequences; Python's 0-based position p   *)
(* is the sequence index p+1.  The outcome of a call is a record           *)
(* [raised, ret]: raised = "none" and ret = <<value>> when the call        *)
(* returns, raised = the exception and ret = <<>> when it raises.          *)
(***************************************************************************)
EXTENDS Integers, Sequences, FiniteSets, TLC

VARIABLES
    result_tables,        \* ResultManager._result_tables: table key -> table
    result_comparator,    \* ResultManager._result_comparator: <<>> is None
    current_run_result,   \* ResultManager._current_run_result: 0 is "unset"
    results,              \* ResultManager._results: the heap, a list of objects
    store,                \* the RunResult objects, by identity
    op,                   \* history: the last ResultManager call
    raised,               \* history: what the last call raised ("none": returned)
    submitted,            \* history: the objects complete_result pushed, in order
    late_data,            \* history: add_model_data reached an object that
                          \*   complete_result had pushed already
    compiled,             \* history: the objects the last compile_results handed
                          \*   to _compile_result, in order
    cmp_in,               \* comparator check: configuration and the two results
    cmp_out,              \* comparator check: outcome of the call
    tree,                 \* parser check: the tree the config text was written from
    text,                 \* parser check: the config text, a sequence of characters
    parsed,               \* parser check: outcome of parse_model_config
    _config,              \* ModelConfig._config: the root dict
    cfg_op,               \* history: the last ModelConfig call
    cfg_out               \* history: outcome of the last ModelConfig call

rmVars == <<result_tables, result_comparator, current_run_result, results,
            store, op, raised, submitted, late_data, compiled>>
cmpVars == <<cmp_in, cmp_out>>
parseVars == <<tree, text, parsed>>
cfgVars == <<_config, cfg_op, cfg_out>>
vars == <<rmVars, cmpVars, parseVars, cfgVars>>

-----------------------------------------------------------------------------
(* Bounds of the model *)

\* RunResult objects one ResultManager creates
MaxResults == 3
\* snapshots in each of a result's two snapshot sequences
MaxSnap == 1

-----------------------------------------------------------------------------
(* Call outcomes *)

Returned(v) == [raised |-> "none", ret |-> <<v>>]
Raised(e) == [raised |-> e, ret |-> <<>>]
Ok(r) == r.raised = "none"

Range(s) == {s[i] : i \in DOMAIN s}

-----------------------------------------------------------------------------
(* ResultComparator *)

\* dict comprehension {types[i]: i for i in range(len(types))}: on a repeated
\* kind the last position wins
TypeToIdx(types) ==
    [k \in Range(types) |->
        CHOOSE i \in DOMAIN types :
            types[i] = k /\ \A j \in DOMAIN types : types[j] = k => j <= i]

RECURSIVE SumColumn(_, _, _)
SumColumn(row_list, i, j) ==
    IF j = 0 THEN 0 ELSE row_list[j][i] + SumColumn(row_list, i, j - 1)

\* An average (sum * 1.0) / N is kept as the exact fraction [num, den].
\* rows_subscriptable is FALSE when the rows are dict views (dict.values()),
\* which have a length but cannot be indexed.
AverageList(row_list, rows_subscriptable) ==
    IF Len(row_list) = 0 THEN Returned(<<>>)
    ELSE LET N == Len(row_list)
             d == Len(row_list[1])
         IN  IF d = 0 THEN Returned(<<>>)
             ELSE IF ~rows_subscriptable THEN Raised("TypeError")
             ELSE IF \E j \in 1..N : Len(row_list[j]) < d THEN Raised("IndexError")
             ELSE Returned([i \in 1..d |->
                              [num |-> SumColumn(row_list, i, N), den |-> N]])

\* gpu_rows.append(measurement.values()): one dict view per snapshot
GpuRowsAppended(gpu_measurements) == gpu_measurements

\* the pair the two _average_list calls return; the first to raise wins
AveragePair(g, n) ==
    IF ~Ok(g) THEN g
    ELSE IF ~Ok(n) THEN n
    ELSE Returned([gpu |-> g.ret[1], non_gpu |-> n.ret[1]])

\* returns <<average over gpu rows, average over non-gpu rows>>
AverageMeasurements(result) ==
    AveragePair(AverageList(GpuRowsAppended(result.gpu), FALSE),
                AverageList(result.host, TRUE))

\* a verdict whose threshold is the factor times the larger of the two
\* averages, whichever argument comes first
Verdict_LargerBaseline(percent, a1, a2) ==
    LET diff == 100 * (a1.num * a2.den - a2.num * a1.den)
        larger == IF a1.num * a2.den >= a2.num * a1.den
                  THEN a1.num * a2.den ELSE a2.num * a1.den
    IN  IF diff > percent * larger THEN 1
        ELSE IF diff < 0 - percent * larger THEN -1
        ELSE 0

\* threshold = factor * a1, value_diff = a1 - a2, with factor = percent/100;
\* both sides are scaled by 100 * a1.den * a2.den (> 0)
Verdict(percent, a1, a2) ==
    LET diff == 100 * (a1.num * a2.den - a2.num * a1.den)
        threshold == percent * a1.num * a2.den
    IN  IF diff > threshold THEN 1
        ELSE IF diff < 0 - threshold THEN -1
        ELSE 0

\* The universe a priority kind is looked up in by the first branch of the
\* walk, and the average rows that branch reads
FirstBranchIndex(cfg) == TypeToIdx(cfg.gpu_metric_types)
FirstBranchRow(avg) == avg.non_gpu
\* ... and by the second branch (elif)
SecondBranchIndex(cfg) == TypeToIdx(cfg.gpu_metric_types)
SecondBranchRow(avg) == avg.gpu

BranchVerdict(percent, row1, row2, idx) ==
    IF idx > Len(row1) \/ idx > Len(row2) THEN Raised("IndexError")
    ELSE Returned(Verdict(percent, row1[idx], row2[idx]))

\* the body of the loop for one priority kind: the branch taken and its
\* verdict (0: fall through to the next priority)
PriorityVerdict(cfg, avg1, avg2, priority) ==
    IF priority \in DOMAIN FirstBranchIndex(cfg)
    THEN BranchVerdict(cfg.percent, FirstBranchRow(avg1), FirstBranchRow(avg2),
                       FirstBranchIndex(cfg)[priority])
    ELSE IF priority \in DOMAIN SecondBranchIndex(cfg)
    THEN BranchVerdict(cfg.percent, SecondBranchRow(avg1), SecondBranchRow(avg2),
                       SecondBranchIndex(cfg)[priority])
    ELSE Raised("UnknownMetricCategory")

RECURSIVE WalkPriorities(_, _, _, _)
RECURSIVE WalkFrom(_, _, _, _, _)

\* the loop from priority i on, v being the verdict of priority i
WalkFrom(cfg, avg1, avg2, i, v) ==
    IF ~Ok(v) THEN v
    ELSE IF v.ret[1] # 0 THEN v
    ELSE WalkPriorities(cfg, avg1, avg2, i + 1)

WalkPriorities(cfg, avg1, avg2, i) ==
    IF i > Len(cfg.metric_priorities) THEN Returned(0)
    ELSE WalkFrom(cfg, avg1, avg2, i,
                  PriorityVerdict(cfg, avg1, avg2, cfg.metric_priorities[i]))

\* __call__ once both results are averaged
CompareAverages(cfg, a1, a2) ==
    IF ~Ok(a1) THEN a1
    ELSE IF ~Ok(a2) THEN a2
    ELSE WalkPriorities(cfg, a1.ret[1], a2.ret[1], 1)

\* ResultComparator.__call__
Compare(cfg, result1, result2) ==
    CompareAverages(cfg, AverageMeasurements(result1),
                    AverageMeasurements(result2))

-----------------------------------------------------------------------------
(* RunResult *)

\* RunResult.__init__
NewRunResult(run_config, comparator) ==
    [run_config |-> run_config, comparator |-> comparator,
     gpu |-> <<>>, host |-> <<>>]

\* RunResult.add_data
AddData(result, measurements, has_gpu_ids) ==
    IF has_gpu_ids
    THEN [result EXCEPT !.gpu = Append(@, measurements)]
    ELSE [result EXCEPT !.host = Append(@, measurements)]

\* self._comparator(self, other); the comparator field is <<>> for None,
\* which cannot be called
CallComparator(st, a, b) ==
    IF st[a].comparator = <<>> THEN Raised("TypeError")
    ELSE Compare(st[a].comparator[1], st[a], st[b])

\* (outcome of the comparator call) == v
VerdictIs(c, v) == IF Ok(c) THEN Returned(c.ret[1] = v) ELSE c

\* RunResult.__eq__: self._comparator(self, other) == 0
ResultEq(st, a, b) == VerdictIs(CallComparator(st, a, b), 0)

\* RunResult.__gt__: self._comparator(self, other) == 1
ResultGt(st, a, b) == VerdictIs(CallComparator(st, a, b), 1)

\* not (a > b) and a != b, from the outcomes of __gt__ and __eq__; __eq__
\* counts only when __gt__ returned False
LtFrom(gt, eq) ==
    IF ~Ok(gt) THEN gt
    ELSE IF gt.ret[1] THEN Returned(FALSE)
    ELSE IF ~Ok(eq) THEN eq
    ELSE Returned(~eq.ret[1])

\* a < b as functools.total_ordering derives it from __gt__ and __eq__
ResultLt(st, a, b) == LtFrom(ResultGt(st, a, b), ResultEq(st, a, b))

-----------------------------------------------------------------------------
(* heapq on a list of RunResult objects (CPython's _heapq).  heap is a     *)
(* sequence of object identities; positions are Python's, 0-based.         *)

At(heap, pos) == heap[pos + 1]
Swap(heap, p, q) == [heap EXCEPT ![p + 1] = heap[q + 1], ![q + 1] = heap[p + 1]]

HeapState(e, heap) == [raised |-> e, heap |-> heap]

RECURSIVE SiftDown(_, _, _, _)
RECURSIVE SiftDownStep(_, _, _, _, _, _)
RECURSIVE SiftUp(_, _, _, _)
RECURSIVE SiftUpStep(_, _, _, _, _, _)

\* one turn of siftdown's loop, lt being the outcome of newitem < parent
SiftDownStep(st, heap, startpos, pos, parentpos, lt) ==
    IF ~Ok(lt) THEN HeapState(lt.raised, heap)
    ELSE IF ~lt.ret[1] THEN HeapState("none", heap)
    ELSE SiftDown(st, Swap(heap, pos, parentpos), startpos, parentpos)

\* siftdown: move the item at pos towards startpos while it is < its parent
SiftDown(st, heap, startpos, pos) ==
    IF pos <= startpos THEN HeapState("none", heap)
    ELSE SiftDownStep(st, heap, startpos, pos, (pos - 1) \div 2,
                      ResultLt(st, At(heap, pos), At(heap, (pos - 1) \div 2)))

\* one turn of siftup's loop with two children, lt being the outcome of
\* left child < right child
SiftUpStep(st, heap, startpos, pos, left, lt) ==
    IF ~Ok(lt) THEN HeapState(lt.raised, heap)
    ELSE IF lt.ret[1] THEN SiftUp(st, Swap(heap, left, pos), startpos, left)
    ELSE SiftUp(st, Swap(heap, left + 1, pos), startpos, left + 1)

\* siftup: bubble the smaller child up until a leaf, then sift down
SiftUp(st, heap, startpos, pos) ==
    IF pos >= Len(heap) \div 2 THEN SiftDown(st, heap, startpos, pos)
    ELSE IF 2 * pos + 2 < Len(heap)
    THEN SiftUpStep(st, heap, startpos, pos, 2 * pos + 1,
                    ResultLt(st, At(heap, 2 * pos + 1), At(heap, 2 * pos + 2)))
    ELSE SiftUp(st, Swap(heap, 2 * pos + 1, pos), startpos, 2 * pos + 1)

\* heapq.heappush(heap, item): append, then sift the new item down
HeapPush(st, heap, item) ==
    SiftDown(st, Append(heap, item), 0, Len(heap))

\* heapq.heappop(heap): the last item replaces the root and is sifted up;
\* when a comparison raises, the root that was to be returned is dropped
PopState(s, returnitem) ==
    IF s.raised # "none"
    THEN [raised |-> s.raised, heap |-> s.heap, item |-> <<>>]
    ELSE [raised |-> "none", heap |-> s.heap, item |-> <<returnitem>>]

HeapPop(st, heap) ==
    IF Len(heap) = 0 THEN [raised |-> "IndexError", heap |-> heap, item |-> <<>>]
    ELSE LET lastelt == heap[Len(heap)]
             rest == SubSeq(heap, 1, Len(heap) - 1)
         IN  IF Len(rest) = 0
             THEN [raised |-> "none", heap |-> rest, item |-> <<lastelt>>]
             ELSE PopState(SiftUp(st, [rest EXCEPT ![1] = lastelt], 0, 0),
                           heap[1])

-----------------------------------------------------------------------------
(* Inputs of the ResultManager model *)

\* metric kinds handed to create_tables and to the comparators
GpuKinds == <<"gpu_utilization">>
HostKinds == <<"perf_throughput">>

\* the comparators a caller hands to set_result_comparator
Comparators ==
    {[gpu_metric_types |-> GpuKinds, non_gpu_metric_types |-> HostKinds,
      metric_priorities |-> p, percent |-> 1] :
        p \in {<<"gpu_utilization">>}}

\* run configurations: M is the number of perf_analyzer configs, one per
\* measured combination
RunConfigs == {[name |-> "model", M |-> m] : m \in 1..MaxSnap}

\* RunConfig.perf_analyzer_configs(): one identity map per measured combination
perf_analyzer_configs(run_config) ==
    [i \in 1..run_config.M |->
        [model_name |-> run_config.name, batch_size |-> i, concurrency_range |-> 1]]

\* host-scoped rows and accelerator-scoped mappings (accelerator id -> row;
\* the ids are 1..G) handed to add_model_data
HostRows == {<<10>>, <<15>>, <<20>>}
GpuMappings == {<<>>, <<<<50>>, <<50>>>>}

-----------------------------------------------------------------------------
(* ResultManager *)

server_only_table_key == "server_gpu_metrics"
model_gpu_table_key == "model_gpu_metrics"
model_inference_table_key == "model_inference_metrics"
non_gpu_specific_headers == <<"Model", "Batch", "Concurrency">>
gpu_specific_headers == <<"Model", "GPU ID", "Batch", "Concurrency">>

\* ResultTable.insert_row_by_index(row): the row goes to the end of the table
InsertRow(tables, key, row) ==
    [tables EXCEPT ![key].rows = Append(@, row)]

\* _add_result_table: a new, empty table with the headers plus one column
\* per metric type
AddResultTable(tables, key, headers, metric_types, aggregation_tag) ==
    [k \in DOMAIN tables \cup {key} |->
        IF k = key
        THEN [headers |-> headers \o
                 [i \in DOMAIN metric_types |-> <<aggregation_tag, metric_types[i]>>],
              rows |-> <<>>]
        ELSE tables[k]]

CompileState(e, tables) == [raised |-> e, tables |-> tables]

\* the inner loop of _compile_result: one row per accelerator id
RECURSIVE InsertGpuRows(_, _, _, _)
InsertGpuRows(tables, config, mapping, gpu_id) ==
    IF gpu_id > Len(mapping) THEN CompileState("none", tables)
    ELSE IF model_gpu_table_key \notin DOMAIN tables
    THEN CompileState("KeyError", tables)
    ELSE InsertGpuRows(
             InsertRow(tables, model_gpu_table_key,
                       <<config.model_name, gpu_id, config.batch_size,
                         config.concurrency_range>> \o mapping[gpu_id]),
             config, mapping, gpu_id + 1)

RECURSIVE CompileResultFrom(_, _, _)
RECURSIVE CompileNext(_, _, _)

\* after the rows of perf config i, g being the outcome of the inner loop
CompileNext(result, i, g) ==
    IF g.raised # "none" THEN g ELSE CompileResultFrom(result, g.tables, i + 1)

\* _compile_result, from perf config i on
CompileResultFrom(result, tables, i) ==
    LET perf_configs == perf_analyzer_configs(result.run_config)
    IN  IF i > Len(perf_configs) THEN CompileState("none", tables)
        ELSE IF i > Len(result.host) THEN CompileState("IndexError", tables)
        ELSE IF model_inference_table_key \notin DOMAIN tables
        THEN CompileState("KeyError", tables)
        ELSE LET config == perf_configs[i]
                 t1 == InsertRow(tables, model_inference_table_key,
                                 <<config.model_name, config.batch_size,
                                   config.concurrency_range>> \o result.host[i])
             IN  IF i > Len(result.gpu) THEN CompileState("IndexError", t1)
                 ELSE CompileNext(result, i,
                                  InsertGpuRows(t1, config, result.gpu[i], 1))

CompileResult(result, tables) == CompileResultFrom(result, tables, 1)

RECURSIVE CompileLoop(_, _, _, _)
RECURSIVE CompilePopped(_, _, _, _)
RECURSIVE CompileWritten(_, _, _, _)

\* the loop of compile_results: pop the next result and write its rows, until
\* the heap is empty or a call raises
CompileLoop(st, heap, tables, done) ==
    IF Len(heap) = 0
    THEN [raised |-> "none", heap |-> heap, tables |-> tables, done |-> done]
    ELSE CompilePopped(st, tables, done, HeapPop(st, heap))

\* the loop body after heappop, p being its outcome
CompilePopped(st, tables, done, p) ==
    IF p.raised # "none"
    THEN [raised |-> p.raised, heap |-> p.heap, tables |-> tables, done |-> done]
    ELSE CompileWritten(st, p.heap, Append(done, p.item[1]),
                        CompileResult(st[p.item[1]], tables))

\* the loop body after _compile_result, c being its outcome
CompileWritten(st, heap, done, c) ==
    IF c.raised # "none"
    THEN [raised |-> c.raised, heap |-> heap, tables |-> c.tables, done |-> done]
    ELSE CompileLoop(st, heap, c.tables, done)

Call(name, args) == [name |-> name, args |-> args]

\* no config text has been read and no ModelConfig built
ParseIdle ==
    /\ tree = <<>>
    /\ text = <<>>
    /\ parsed = <<>>

CfgIdle ==
    /\ _config = <<>>
    /\ cfg_op = Call("none", <<>>)
    /\ cfg_out = <<>>

Init ==
    /\ result_tables = <<>>
    /\ result_comparator = <<>>
    /\ current_run_result = 0
    /\ results = <<>>
    /\ store = <<>>
    /\ op = Call("__init__", <<>>)
    /\ raised = "none"
    /\ submitted = <<>>
    /\ compiled = <<>>
    /\ late_data = FALSE
    /\ cmp_in = <<>>
    /\ cmp_out = <<>>
    /\ ParseIdle
    /\ CfgIdle

\* The sweep driver sets the comparator and creates the tables once each,
\* completes a result once, and calls nothing after compile_results.
Sweeping == op.name # "compile_results"

set_result_comparator(comparator) ==
    /\ Sweeping
    /\ result_comparator = <<>>
    /\ result_comparator' = comparator
    /\ op' = Call("set_result_comparator", <<>>)
    /\ raised' = "none"
    /\ UNCHANGED <<result_tables, current_run_result, results, store,
                   submitted, late_data, compiled, cmpVars, parseVars, cfgVars>>

create_tables(gpu_specific_metrics, non_gpu_specific_metrics, aggregation_tag) ==
    /\ Sweeping
    /\ Cardinality(DOMAIN result_tables) = 0
    /\ result_tables' =
         AddResultTable(
           AddResultTable(
             AddResultTable(result_tables, server_only_table_key,
                            gpu_specific_headers, gpu_specific_metrics,
                            aggregation_tag),
             model_gpu_table_key, gpu_specific_headers, gpu_specific_metrics,
             aggregation_tag),
           model_inference_table_key, non_gpu_specific_headers,
           non_gpu_specific_metrics, aggregation_tag)
    /\ op' = Call("create_tables", <<>>)
    /\ raised' = "none"
    /\ UNCHANGED <<result_comparator, current_run_result, results, store,
                   submitted, late_data, compiled, cmpVars, parseVars, cfgVars>>

\* init_result without the check of the comparator
InitResultCheck_NoComparatorCheck(tables, comparator) ==
    IF Cardinality(DOMAIN tables) = 0 THEN "UninitializedResultState"
    ELSE "none"

\* the exception init_result raises in the state, "none" when it goes through
\* (both are TritonModelAnalyzerException in the code)
InitResultCheck(tables, comparator) ==
    IF Cardinality(DOMAIN tables) = 0 THEN "UninitializedResultState"
    ELSE IF comparator = <<>> THEN "UninitializedResultState"
    ELSE "none"

init_result(run_config) ==
    LET e == InitResultCheck(result_tables, result_comparator)
    IN  /\ Sweeping
        /\ op' = Call("init_result", <<run_config>>)
        /\ raised' = e
        /\ IF e # "none"
           THEN UNCHANGED <<store, current_run_result>>
           ELSE /\ Len(store) < MaxResults
                /\ store' = Append(store,
                                   NewRunResult(run_config, result_comparator))
                /\ current_run_result' = Len(store) + 1
        /\ UNCHANGED <<result_tables, result_comparator, results, submitted,
                       late_data, compiled, cmpVars, parseVars, cfgVars>>

add_model_data(measurements, has_gpu_ids) ==
    /\ Sweeping
    /\ op' = Call("add_model_data", <<>>)
    /\ IF current_run_result = 0
       THEN /\ raised' = "AttributeError"
            /\ UNCHANGED <<store, late_data>>
       ELSE /\ Len(IF has_gpu_ids THEN store[current_run_result].gpu
                   ELSE store[current_run_result].host) < MaxSnap
            /\ raised' = "none"
            /\ store' = [store EXCEPT ![current_run_result] =
                            AddData(@, measurements, has_gpu_ids)]
            /\ late_data' = (late_data \/ current_run_result \in Range(submitted))
    /\ UNCHANGED <<result_tables, result_comparator, current_run_result,
                   results, submitted, compiled, cmpVars, parseVars, cfgVars>>

complete_result ==
    /\ Sweeping
    /\ op' = Call("complete_result", <<>>)
    /\ IF current_run_result = 0
       THEN /\ raised' = "AttributeError"
            /\ UNCHANGED <<results, submitted>>
       ELSE /\ current_run_result \notin Range(submitted)
            /\ \E h \in {HeapPush(store, results, current_run_result)} :
                  /\ raised' = h.raised
                  /\ results' = h.heap
            /\ submitted' = Append(submitted, current_run_result)
    /\ UNCHANGED <<result_tables, result_comparator, current_run_result,
                   store, late_data, compiled, cmpVars, parseVars, cfgVars>>

compile_results ==
    /\ Sweeping
    /\ op' = Call("compile_results", <<>>)
    /\ \E c \in {CompileLoop(store, results, result_tables, <<>>)} :
          /\ raised' = c.raised
          /\ results' = c.heap
          /\ result_tables' = c.tables
          /\ compiled' = c.done
    /\ UNCHANGED <<result_comparator, current_run_result, store,
                   submitted, late_data, cmpVars, parseVars, cfgVars>>

Next ==
    \/ \E c \in Comparators : set_result_comparator(<<c>>)
    \/ create_tables(GpuKinds, HostKinds, "Max")
    \/ \E rc \in RunConfigs : init_result(rc)
    \/ \E m \in HostRows : add_model_data(m, FALSE)
    \/ \E m \in GpuMappings : add_model_data(m, TRUE)
    \/ complete_result
    \/ compile_results

Spec == Init /\ [][Next]_vars

-----------------------------------------------------------------------------
(* The comparator on its own: the inputs are drawn in the initial state    *)
(* and one step applies ResultComparator.__call__.                         *)

\* kinds in a priority list, and snapshots in a host-scoped sequence
MaxPriorities == 2
MaxCmpSnap == 2

CmpGpuKinds == <<"gpu_used_memory", "gpu_utilization">>
CmpHostKinds == <<"perf_throughput", "perf_latency">>
PriorityKinds ==
    {"gpu_used_memory", "gpu_utilization", "perf_throughput", "cpu_used_ram"}

SeqsUpTo(S, n) == UNION {[1..k -> S] : k \in 0..n}

CmpConfigs ==
    {[gpu_metric_types |-> CmpGpuKinds, non_gpu_metric_types |-> CmpHostKinds,
      metric_priorities |-> p, percent |-> pc] :
        p \in SeqsUpTo(PriorityKinds, MaxPriorities), pc \in {1, 5}}

\* host-scoped rows (throughput, latency) and accelerator-scoped snapshot
\* sequences (rows of used memory, utilization)
CmpHostRows == {<<100, 5>>, <<99, 5>>, <<99, 7>>}
CmpGpuSequences == {<<>>, << <<>> >>, << << <<30, 40>> >> >>}

CmpResults ==
    {[run_config |-> [name |-> "model", M |-> 1], comparator |-> <<>>,
      gpu |-> g, host |-> h] :
        g \in CmpGpuSequences, h \in SeqsUpTo(CmpHostRows, MaxCmpSnap)}

RmIdle ==
    /\ result_tables = <<>>
    /\ result_comparator = <<>>
    /\ current_run_result = 0
    /\ results = <<>>
    /\ store = <<>>
    /\ op = Call("__init__", <<>>)
    /\ raised = "none"
    /\ submitted = <<>>
    /\ compiled = <<>>
    /\ late_data = FALSE

InitCompare ==
    /\ RmIdle
    /\ cmp_in \in {<<[cfg |-> c, a |-> a, b |-> b]>> :
                      c \in CmpConfigs, a \in CmpResults, b \in CmpResults}
    /\ cmp_out = <<>>
    /\ ParseIdle
    /\ CfgIdle

DoCompare ==
    /\ cmp_out = <<>>
    /\ cmp_out' = <<Compare(cmp_in[1].cfg, cmp_in[1].a, cmp_in[1].b)>>
    /\ UNCHANGED <<cmp_in, rmVars, parseVars, cfgVars>>

NextCompare == DoCompare

SpecCompare == InitCompare /\ [][NextCompare]_vars

-----------------------------------------------------------------------------
(* The config parser (model_config_utils.py).  A text is a sequence of     *)
(* one-character strings; positions are Python's, 0-based.  A parsed value *)
(* is [tag, val]: a str is tag "Scalar" with its characters, a list is tag *)
(* "List" with its items, a dict is tag "Message" with its (key, value)    *)
(* pairs in insertion order.                                               *)

Scalar(chars) == [tag |-> "Scalar", val |-> chars]
List(items) == [tag |-> "List", val |-> items]
Message(entries) == [tag |-> "Message", val |-> entries]

\* the characters str.strip() and its variants remove
Whitespace == {" ", "\n", "\t"}

RECURSIVE lstrip(_)
lstrip(s) ==
    IF Len(s) > 0 /\ s[1] \in Whitespace THEN lstrip(Tail(s)) ELSE s

RECURSIVE rstrip(_)
rstrip(s) ==
    IF Len(s) > 0 /\ s[Len(s)] \in Whitespace
    THEN rstrip(SubSeq(s, 1, Len(s) - 1))
    ELSE s

strip(s) == lstrip(rstrip(s))

\* s.find(c): the position of the first c, -1 when there is none
find(s, c) ==
    IF \E i \in DOMAIN s : s[i] = c
    THEN (CHOOSE i \in DOMAIN s : s[i] = c /\ \A j \in 1..(i - 1) : s[j] # c) - 1
    ELSE -1

\* s[:n] and s[n:] for n >= 0
SliceTo(s, n) == SubSeq(s, 1, IF n < Len(s) THEN n ELSE Len(s))
SliceFrom(s, n) == IF n >= Len(s) THEN <<>> ELSE SubSeq(s, n + 1, Len(s))

\* s.replace(c, '')
replace(s, c) == SelectSeq(s, LAMBDA x : x # c)

\* output[key] = value on a dict: a key that is there keeps its place
SetItem(entries, key, value) ==
    IF \E i \in DOMAIN entries : entries[i][1] = key
    THEN [i \in DOMAIN entries |->
             IF entries[i][1] = key THEN <<key, value>> ELSE entries[i]]
    ELSE Append(entries, <<key, value>>)

ParseState(e, rest, out) == [raised |-> e, rest |-> rest, out |-> out]

RECURSIVE parse_dict(_, _)
RECURSIVE parse_list(_, _)

\* parse_dict(config_str, output): rest is the returned string, out the
\* entries of output
parse_dict(config_str, output) ==
    LET cs == lstrip(config_str)
        next_newline == find(cs, "\n")
    IN  IF next_newline <= 0 THEN ParseState("none", cs, output)
        ELSE
          LET next_item == SliceTo(cs, next_newline)
              key_delimiter == find(next_item, ":")
              list_delimiter == find(next_item, "[")
              dict_delimiter == find(next_item, "{")
          IN  IF key_delimiter > -1
              THEN LET next_val ==
                         replace(lstrip(SliceFrom(next_item, key_delimiter + 1)),
                                 "\"")
                   IN  parse_dict(SliceFrom(cs, next_newline + 1),
                                  SetItem(output, SliceTo(next_item, key_delimiter),
                                          Scalar(next_val)))
              ELSE IF list_delimiter > -1
              THEN LET l == parse_list(SliceFrom(cs, list_delimiter + 1), <<>>)
                   IN  IF l.raised # "none"
                       THEN ParseState(l.raised, l.rest, output)
                       ELSE parse_dict(lstrip(l.rest),
                                       SetItem(output,
                                               rstrip(SliceTo(next_item,
                                                              list_delimiter)),
                                               List(l.out)))
              ELSE IF dict_delimiter > -1
              THEN LET d == parse_dict(SliceFrom(cs, dict_delimiter + 1), <<>>)
                   IN  IF d.raised # "none"
                       THEN ParseState(d.raised, d.rest, output)
                       ELSE parse_dict(lstrip(d.rest),
                                       SetItem(output,
                                               rstrip(SliceTo(next_item,
                                                              dict_delimiter)),
                                               Message(d.out)))
              ELSE ParseState("none", cs, output)

\* parse_list(config_str, output).  When neither "," nor "]" bounds the
\* token, delimiter is -1: config_str[delimiter + 1:] is config_str itself,
\* so every later turn of the loop is this one again ("nonterminating").
parse_list(config_str, output) ==
    LET cs == lstrip(config_str)
    IN  IF Len(cs) = 0 THEN ParseState("IndexError", cs, output)
        ELSE IF cs[1] = "]"
        THEN ParseState("none", lstrip(SliceFrom(cs, 1)), output)
        ELSE IF cs[1] = "{"
        THEN LET d == parse_dict(SliceFrom(lstrip(cs), 1), <<>>)
             IN  IF d.raised # "none"
                 THEN ParseState(d.raised, d.rest, output)
                 ELSE parse_list(SliceFrom(lstrip(d.rest), 1),
                                 Append(output, Message(d.out)))
        ELSE LET comma == find(cs, ",")
                 end_list == find(cs, "]")
                 delimiter == IF comma < 0 \/ comma > end_list
                              THEN end_list ELSE comma
             IN  IF delimiter = -1
                 THEN ParseState("nonterminating", cs, output)
                 ELSE parse_list(SliceFrom(cs, delimiter + 1),
                                 Append(output,
                                        Scalar(strip(SliceTo(cs, delimiter)))))

\* parse_model_config, from the text read from config.pbtxt on
parse_model_config(config_str) ==
    LET r == parse_dict(config_str, <<>>)
    IN  IF r.raised = "none" THEN Returned(Message(r.out)) ELSE Raised(r.raised)

-----------------------------------------------------------------------------
(* The parser on its own: a tree is drawn and written out in the grammar's *)
(* textual form, the end of the text may be cut off, and one step applies  *)
(* parse_model_config.                                                     *)

\* entries in a Message, items in a List, characters cut off a text
MaxEntries == 2
MaxItems == 2
MaxCut == 3

Keys == {<<"a">>, <<"b">>}
ScalarTexts == {<<"x">>, <<"1", "2">>}

Scalars == {Scalar(t) : t \in ScalarTexts}
ListsOf(V) == {List(s) : s \in SeqsUpTo(V, MaxItems)}
MessagesOf(V) ==
    {Message(e) :
        e \in {e \in SeqsUpTo(Keys \X V, MaxEntries) :
                  \A i, j \in DOMAIN e : e[i][1] = e[j][1] => i = j}}

\* the values of a root Message: scalars, lists of scalars, messages of
\* scalars and lists of one message
Values ==
    Scalars \cup ListsOf(Scalars) \cup MessagesOf(Scalars)
      \cup {List(<<m>>) : m \in MessagesOf(Scalars)}
Trees == MessagesOf(Values)

RECURSIVE Serialize(_)
RECURSIVE SerializeEntries(_)
RECURSIVE SerializeItems(_, _)

\* the lines of the entries of a Message: "key: value", "key [" ... "]" and
\* "key {" ... "}"
SerializeEntries(entries) ==
    IF entries = <<>> THEN <<>>
    ELSE LET key == entries[1][1]
             v == entries[1][2]
             line == IF v.tag = "Scalar"
                     THEN key \o <<":", " ">> \o v.val \o <<"\n">>
                     ELSE IF v.tag = "List"
                     THEN key \o <<" ", "[", "\n">> \o SerializeItems(v.val, 1)
                              \o <<"]", "\n">>
                     ELSE key \o <<" ", "{", "\n">> \o SerializeEntries(v.val)
                              \o <<"}", "\n">>
         IN  line \o SerializeEntries(Tail(entries))

\* the items of a List, one per line: scalars are separated by ",", a
\* message is written "{" ... "}"
SerializeItems(items, i) ==
    IF i > Len(items) THEN <<>>
    ELSE LET v == items[i]
             line == IF v.tag = "Scalar"
                     THEN v.val \o (IF i < Len(items) THEN <<",">> ELSE <<>>)
                              \o <<"\n">>
                     ELSE <<"{", "\n">> \o SerializeEntries(v.val)
                              \o <<"}", "\n">>
         IN  line \o SerializeItems(items, i + 1)

Serialize(t) == SerializeEntries(t.val)

\* the text without its last k characters
CutOff(s, k) == SliceTo(s, IF k < Len(s) THEN Len(s) - k ELSE 0)

\* "key: value" lines as they are written by hand: blanks before the key,
\* around the ":" and at the end of the line, the value quoted or not
Blanks == {<<>>, <<" ">>}
Paddings ==
    [lead : Blanks, before : Blanks, after : Blanks, trail : Blanks,
     quote : {<<>>, <<"\"">>}]

RECURSIVE WriteLines(_, _)
WriteLines(entries, pad) ==
    IF entries = <<>> THEN <<>>
    ELSE pad.lead \o entries[1][1] \o pad.before \o <<":">> \o pad.after
           \o pad.quote \o entries[1][2].val \o pad.quote \o pad.trail
           \o <<"\n">> \o WriteLines(Tail(entries), pad)

\* root Messages of scalar entries only
LineTrees == {t \in MessagesOf(Scalars) : Len(t.val) > 0}

\* a config.pbtxt of four fields, and the tree it describes
ScenarioText ==
    <<"n", "a", "m", "e", ":", " ", "\"", "m", "1", "\"", "\n">> \o
    <<"p", "l", "a", "t", "f", "o", "r", "m", ":", " ", "\"", "t", "e", "n", "s", "o", "r", "r", "t", "\"", "\n">> \o
    <<"m", "a", "x", "_", "b", "a", "t", "c", "h", "_", "s", "i", "z", "e", ":", " ", "8", "\n">> \o
    <<"i", "n", "s", "t", "a", "n", "c", "e", "_", "g", "r", "o", "u", "p", " ", "[", "\n">> \o
    <<"{", "\n">> \o
    <<"c", "o", "u", "n", "t", ":", " ", "2", "\n">> \o
    <<"}", "\n">> \o
    <<"]", "\n">>

ScenarioTree ==
    Message(<< <<<<"n", "a", "m", "e">>, Scalar(<<"m", "1">>)>>,
               <<<<"p", "l", "a", "t", "f", "o", "r", "m">>,
                 Scalar(<<"t", "e", "n", "s", "o", "r", "r", "t">>)>>,
               <<<<"m", "a", "x", "_", "b", "a", "t", "c", "h", "_", "s", "i", "z", "e">>,
                 Scalar(<<"8">>)>>,
               <<<<"i", "n", "s", "t", "a", "n", "c", "e", "_", "g", "r", "o", "u", "p">>,
                 List(<<Message(<< <<<<"c", "o", "u", "n", "t">>, Scalar(<<"2">>)>> >>)>>)>> >>)

InitParse ==
    /\ RmIdle
    /\ cmp_in = <<>>
    /\ cmp_out = <<>>
    /\ CfgIdle
    /\ \/ /\ tree \in Trees
          /\ text \in {CutOff(Serialize(tree), k) : k \in 0..MaxCut}
       \/ /\ tree \in LineTrees
          /\ text \in {WriteLines(tree.val, pad) : pad \in Paddings}
       \/ /\ tree = ScenarioTree
          /\ text = ScenarioText
    /\ parsed = <<>>

DoParse ==
    /\ parsed = <<>>
    /\ parsed' = <<parse_model_config(text)>>
    /\ UNCHANGED <<tree, text, rmVars, cmpVars, cfgVars>>

NextParse == DoParse

SpecParse == InitParse /\ [][NextParse]_vars

-----------------------------------------------------------------------------
(* ModelConfig (model_config.py): the root dict parsed from config.pbtxt,  *)
(* its five accessors and its two setters.                                 *)

\* key in d, and d[key] for a key that is there
Contains(entries, key) == \E i \in DOMAIN entries : entries[i][1] = key
GetItem(entries, key) ==
    entries[CHOOSE i \in DOMAIN entries : entries[i][1] = key][2]

\* the keys the accessors and setters use
name_key == <<"n", "a", "m", "e">>
platform_key == <<"p", "l", "a", "t", "f", "o", "r", "m">>
max_batch_size_key ==
    <<"m", "a", "x", "_", "b", "a", "t", "c", "h", "_", "s", "i", "z", "e">>
instance_group_key ==
    <<"i", "n", "s", "t", "a", "n", "c", "e", "_", "g", "r", "o", "u", "p">>
dynamic_batching_key ==
    <<"d", "y", "n", "a", "m", "i", "c", "_", "b", "a", "t", "c", "h", "i", "n", "g">>

\* an int object
IntValue(n) == [tag |-> "Int", val |-> <<n>>]

Digits == {"0", "1", "2", "3", "4", "5", "6", "7", "8", "9"}
DigitValue(c) ==
    CASE c = "0" -> 0 [] c = "1" -> 1 [] c = "2" -> 2 [] c = "3" -> 3
      [] c = "4" -> 4 [] c = "5" -> 5 [] c = "6" -> 6 [] c = "7" -> 7
      [] c = "8" -> 8 [] c = "9" -> 9

RECURSIVE DecimalValue(_)
DecimalValue(chars) ==
    IF chars = <<>> THEN 0
    ELSE 10 * DecimalValue(SubSeq(chars, 1, Len(chars) - 1))
           + DigitValue(chars[Len(chars)])

\* int(x): a str is stripped and read as an optional sign and decimal
\* digits, anything else in it is a ValueError; a list or a dict is a
\* TypeError
IntOf(v) ==
    IF v.tag # "Scalar" THEN Raised("TypeError")
    ELSE LET s == strip(v.val)
             signed == Len(s) > 0 /\ s[1] \in {"+", "-"}
             digits == IF signed THEN Tail(s) ELSE s
         IN  IF Len(digits) = 0 \/ \E i \in DOMAIN digits : digits[i] \notin Digits
             THEN Raised("ValueError")
             ELSE Returned(IntValue(IF signed /\ s[1] = "-"
                                    THEN 0 - DecimalValue(digits)
                                    ELSE DecimalValue(digits)))

\* an accessor that returns a placeholder for a key that is not there
GetField_Placeholder(entries, key) ==
    IF ~Contains(entries, key) THEN Returned(Scalar(<<>>))
    ELSE Returned(GetItem(entries, key))

\* the body the accessors share: raise when the key is not in _config
\* (TritonModelAnalyzerException in the code), else return self._config[key]
GetField(entries, key) ==
    IF ~Contains(entries, key) THEN Raised("ConfigFieldMissing")
    ELSE Returned(GetItem(entries, key))

\* the config texts a ModelConfig is built from: each field's lines are
\* there or not
NameLines == <<"n", "a", "m", "e", ":", " ", "\"", "m", "\"", "\n">>
PlatformLines ==
    <<"p", "l", "a", "t", "f", "o", "r", "m", ":", " ", "\"", "t", "\"", "\n">>
MaxBatchSizeLines ==
    {max_batch_size_key \o <<":", " ">> \o v \o <<"\n">> :
        v \in {<<"8">>, <<"1", "6">>, <<"x">>}}
InstanceGroupLines ==
    instance_group_key
      \o <<" ", "[", "\n", "{", "\n", "c", ":", " ", "2", "\n", "}", "\n",
           "]", "\n">>
DynamicBatchingLines == dynamic_batching_key \o <<" ", "{", "\n", "}", "\n">>

ConfigTexts ==
    {n \o p \o m \o i \o d :
        n \in {<<>>, NameLines}, p \in {<<>>, PlatformLines},
        m \in {<<>>} \cup MaxBatchSizeLines,
        i \in {<<>>, InstanceGroupLines}, d \in {<<>>, DynamicBatchingLines}}

\* the dicts handed to the setters
SetterValues ==
    {Message(<< <<<<"c">>, Scalar(<<"1">>)>> >>),
     Message(<< <<<<"c">>, Scalar(<<"4">>)>> >>)}

\* ModelConfig.__init__ without instance_group and dynamic_batching
InitConfig ==
    /\ RmIdle
    /\ cmp_in = <<>>
    /\ cmp_out = <<>>
    /\ ParseIdle
    /\ \E t \in ConfigTexts :
          /\ Ok(parse_model_config(t))
          /\ _config = parse_model_config(t).ret[1].val
    /\ cfg_op = Call("__init__", <<>>)
    /\ cfg_out = <<>>

\* the accessors leave _config as it is; the call and its outcome are recorded
get_name ==
    /\ cfg_op' = Call("name", <<>>)
    /\ cfg_out' = <<GetField(_config, name_key)>>
    /\ UNCHANGED <<_config, rmVars, cmpVars, parseVars>>

get_platform ==
    /\ cfg_op' = Call("platform", <<>>)
    /\ cfg_out' = <<GetField(_config, platform_key)>>
    /\ UNCHANGED <<_config, rmVars, cmpVars, parseVars>>

\* return int(self._config['max_batch_size'])
IntOfField(f) == IF Ok(f) THEN IntOf(f.ret[1]) ELSE f

get_max_batch_size ==
    /\ cfg_op' = Call("max_batch_size", <<>>)
    /\ cfg_out' = <<IntOfField(GetField(_config, max_batch_size_key))>>
    /\ UNCHANGED <<_config, rmVars, cmpVars, parseVars>>

get_instance_group ==
    /\ cfg_op' = Call("instance_group", <<>>)
    /\ cfg_out' = <<GetField(_config, instance_group_key)>>
    /\ UNCHANGED <<_config, rmVars, cmpVars, parseVars>>

get_dynamic_batching ==
    /\ cfg_op' = Call("dynamic_batching", <<>>)
    /\ cfg_out' = <<GetField(_config, dynamic_batching_key)>>
    /\ UNCHANGED <<_config, rmVars, cmpVars, parseVars>>

set_instance_group(instance_group) ==
    /\ _config' = SetItem(_config, instance_group_key, instance_group)
    /\ cfg_op' = Call("set_instance_group", <<instance_group>>)
    /\ cfg_out' = <<>>
    /\ UNCHANGED <<rmVars, cmpVars, parseVars>>

set_dynamic_batching(dynamic_batching) ==
    /\ _config' = SetItem(_config, dynamic_batching_key, dynamic_batching)
    /\ cfg_op' = Call("set_dynamic_batching", <<dynamic_batching>>)
    /\ cfg_out' = <<>>
    /\ UNCHANGED <<rmVars, cmpVars, parseVars>>

NextConfig ==
    \/ get_name
    \/ get_platform
    \/ get_max_batch_size
    \/ get_instance_group
    \/ get_dynamic_batching
    \/ \E v \in SetterValues : set_instance_group(v)
    \/ \E v \in SetterValues : set_dynamic_batching(v)

SpecConfig == InitConfig /\ [][NextConfig]_vars

-----------------------------------------------------------------------------
(* Claims about the ResultManager (checked under Spec) *)

HostTableRows == result_tables[model_inference_table_key].rows
GpuTableRows == result_tables[model_gpu_table_key].rows

\* C1: compile_results emits the results best to worst: whenever x's rows are
\* written before y's rows, compare(x, y) is not -1.
C1_CompileBestToWorst ==
    (op.name = "compile_results" /\ raised = "none")
      => \A i, j \in DOMAIN compiled :
            i < j =>
              LET c == CallComparator(store, compiled[i], compiled[j])
              IN  ~(Ok(c) /\ c.ret[1] = -1)

\* C5: a result that is in the ranking queue keeps its accelerator and host
\* snapshot sequences for as long as it stays queued, whatever is called.
C5_QueuedResultsUnchanged ==
    [][\A id \in Range(results) :
          id \in Range(results') =>
            /\ store'[id].gpu = store[id].gpu
            /\ store'[id].host = store[id].host]_vars

\* the caller followed the submission protocol: every result was started by
\* init_result, given one host row and one accelerator mapping (of the same G
\* accelerator ids throughout) per measured combination, and then completed,
\* in that order, before compile
C6_Protocol ==
    /\ op.name = "compile_results"
    /\ Len(store) >= 1
    /\ submitted = [i \in DOMAIN store |-> i]
    /\ ~late_data
    /\ \A i \in DOMAIN store :
          /\ Len(store[i].host) = store[i].run_config.M
          /\ Len(store[i].gpu) = store[i].run_config.M
    /\ \A i, j \in DOMAIN store :
          \A k \in DOMAIN store[i].gpu, l \in DOMAIN store[j].gpu :
             Len(store[i].gpu[k]) = Len(store[j].gpu[l])

RECURSIVE C6_SumOver(_, _, _)
C6_SumOver(f(_), st, n) ==
    IF n = 0 THEN 0 ELSE f(st[n]) + C6_SumOver(f, st, n - 1)

RECURSIVE C6_GpuRowCount(_, _)
C6_GpuRowCount(gpu, k) ==
    IF k = 0 THEN 0 ELSE Len(gpu[k]) + C6_GpuRowCount(gpu, k - 1)

C6_HostRowsOf(r) == r.run_config.M
C6_GpuRowsOf(r) == C6_GpuRowCount(r.gpu, Len(r.gpu))

\* C6: after N protocol submissions, compile returns with N*M rows in the
\* model-host table, N*M*G rows in the model-accelerator table and an empty
\* queue.
C6_RowCounts ==
    C6_Protocol
      => /\ raised = "none"
         /\ Len(HostTableRows) = C6_SumOver(C6_HostRowsOf, store, Len(store))
         /\ Len(GpuTableRows) = C6_SumOver(C6_GpuRowsOf, store, Len(store))
         /\ results = <<>>

\* C7: init_result raises UninitializedResultState exactly when the tables or
\* the comparator are missing, and then changes neither the tables, the queue,
\* the in-progress result nor any result; otherwise it makes a new result,
\* bound to its run_config, with two empty snapshot sequences, the in-progress
\* one.
C7_InitResult ==
    [][op'.name = "init_result" =>
         IF Cardinality(DOMAIN result_tables) = 0 \/ result_comparator = <<>>
         THEN /\ raised' = "UninitializedResultState"
              /\ UNCHANGED <<result_tables, results, current_run_result, store>>
         ELSE /\ raised' = "none"
              /\ current_run_result' \in DOMAIN store' \ DOMAIN store
              /\ store'[current_run_result'].run_config = op'.args[1]
              /\ store'[current_run_result'].gpu = <<>>
              /\ store'[current_run_result'].host = <<>>
              /\ \A id \in DOMAIN store : store'[id] = store[id]]_vars

\* init_result has just failed for want of a comparator, with the tables
\* created
C7_Witness ==
    /\ op.name = "init_result"
    /\ raised = "UninitializedResultState"
    /\ Cardinality(DOMAIN result_tables) > 0
    /\ result_comparator = <<>>

-----------------------------------------------------------------------------
(* Claims about the comparator (checked under SpecCompare) *)

CmpCfg == cmp_in[1].cfg
CmpA == cmp_in[1].a
CmpB == cmp_in[1].b
CmpDone == cmp_out # <<>>
KnownKinds(cfg) == Range(cfg.gpu_metric_types) \cup Range(cfg.non_gpu_metric_types)

\* C2: compare raises UnknownMetricCategory only when some priority kind is in
\* neither the accelerator-scoped nor the host-scoped list.
C2_UnknownOnlyForForeignKind ==
    (CmpDone /\ cmp_out[1].raised = "UnknownMetricCategory")
      => \E i \in DOMAIN CmpCfg.metric_priorities :
            CmpCfg.metric_priorities[i] \notin KnownKinds(CmpCfg)

\* every (snapshot, accelerator id) row of an accelerator-scoped sequence
RECURSIVE C3_AllGpuRows(_, _)
C3_AllGpuRows(gpu, k) ==
    IF k = 0 THEN <<>> ELSE C3_AllGpuRows(gpu, k - 1) \o gpu[k]

\* the column-wise mean of the rows of the universe the kind belongs to, as
\* the fraction [num, den]
C3_Mean(cfg, result, kind) ==
    LET rows == IF kind \in Range(cfg.gpu_metric_types)
                THEN C3_AllGpuRows(result.gpu, Len(result.gpu))
                ELSE result.host
        idx == IF kind \in Range(cfg.gpu_metric_types)
               THEN TypeToIdx(cfg.gpu_metric_types)[kind]
               ELSE TypeToIdx(cfg.non_gpu_metric_types)[kind]
    IN  [num |-> SumColumn(rows, idx, Len(rows)), den |-> Len(rows)]

\* +1 when a - b > T*a, -1 when a - b < -T*a, 0 otherwise (T = percent/100)
C3_Decision(percent, a, b) ==
    IF 100 * (a.num * b.den - b.num * a.den) > percent * a.num * b.den THEN 1
    ELSE IF 100 * (a.num * b.den - b.num * a.den) < 0 - percent * a.num * b.den
    THEN -1
    ELSE 0

RECURSIVE C3_FirstDecision(_, _, _, _)
C3_FirstDecision(cfg, a, b, i) ==
    IF i > Len(cfg.metric_priorities) THEN 0
    ELSE LET kind == cfg.metric_priorities[i]
             d == C3_Decision(cfg.percent, C3_Mean(cfg, a, kind),
                              C3_Mean(cfg, b, kind))
         IN  IF d # 0 THEN d ELSE C3_FirstDecision(cfg, a, b, i + 1)

\* the case the claim is checked on: a non-empty priority list of host-scoped
\* kinds, and two results that hold host-scoped snapshots only
C3_Case ==
    /\ CmpDone
    /\ Len(CmpCfg.metric_priorities) > 0
    /\ Range(CmpCfg.metric_priorities) \subseteq Range(CmpCfg.non_gpu_metric_types)
    /\ \A r \in {CmpA, CmpB} : Len(r.host) > 0 /\ r.gpu = <<>>

\* C3: compare returns the verdict of the first priority kind that decides,
\* on the averages of the kind's own universe at the kind's column, and 0 when
\* none decides; the result is one of -1, 0, +1.
C3_FirstDecidingPriority ==
    C3_Case => cmp_out[1] = Returned(C3_FirstDecision(CmpCfg, CmpA, CmpB, 1))

C4_NoSnapshots(r) == r.gpu = <<>> /\ r.host = <<>>

\* C4: compare returns a value of {-1, 0, +1} when a result has no snapshots
\* (stated for the priority lists made of accelerator-scoped kinds, and a
\* second result without accelerator-scoped snapshots).
C4_EmptySnapshotsCompare ==
    ( /\ CmpDone
      /\ C4_NoSnapshots(CmpA) \/ C4_NoSnapshots(CmpB)
      /\ CmpA.gpu = <<>> /\ CmpB.gpu = <<>>
      /\ Range(CmpCfg.metric_priorities) \subseteq Range(CmpCfg.gpu_metric_types) )
      => /\ Ok(cmp_out[1])
         /\ cmp_out[1].ret[1] \in {-1, 0, 1}

\* the same comparator on the two results in the other order
C11_Swapped == Compare(CmpCfg, CmpB, CmpA)

\* a comparator on one accelerator-scoped priority at 1 percent, and two
\* results whose averages at that priority's column are 100 and 99
C11_Cfg ==
    [gpu_metric_types |-> CmpGpuKinds, non_gpu_metric_types |-> CmpHostKinds,
     metric_priorities |-> <<"gpu_used_memory">>, percent |-> 1]
C11_A ==
    [run_config |-> [name |-> "model", M |-> 1], comparator |-> <<>>,
     gpu |-> <<>>, host |-> << <<100, 5>> >>]
C11_B ==
    [run_config |-> [name |-> "model", M |-> 1], comparator |-> <<>>,
     gpu |-> <<>>, host |-> << <<99, 5>> >>]

C13_Case ==
    /\ CmpDone
    /\ Len(CmpCfg.metric_priorities) > 0
    /\ Range(CmpCfg.metric_priorities) \subseteq Range(CmpCfg.gpu_metric_types)
    /\ \A r \in {CmpA, CmpB} : Len(C3_AllGpuRows(r.gpu, Len(r.gpu))) > 0

\* C13: for an accelerator-scoped priority kind compare decides on the
\* accelerator-scoped averages (the mean over every (snapshot, accelerator
\* id) row) at the kind's accelerator position, whatever the host-scoped
\* rows of the two results are.
C13_DecidesOnAcceleratorAverages ==
    C13_Case => cmp_out[1] = Returned(C3_FirstDecision(CmpCfg, CmpA, CmpB, 1))

-----------------------------------------------------------------------------
(* Claims about ModelConfig (checked under SpecConfig) *)

C9_Accessors ==
    {"name", "platform", "max_batch_size", "instance_group", "dynamic_batching"}

C9_KeyOf(method) ==
    CASE method = "name" -> name_key
      [] method = "platform" -> platform_key
      [] method = "max_batch_size" -> max_batch_size_key
      [] method \in {"instance_group", "set_instance_group"} -> instance_group_key
      [] method \in {"dynamic_batching", "set_dynamic_batching"}
           -> dynamic_batching_key

\* the decimal digits of a natural number
RECURSIVE C9_Decimal(_)
C9_Decimal(n) ==
    LET d == <<"0", "1", "2", "3", "4", "5", "6", "7", "8", "9">>[(n % 10) + 1]
    IN  IF n < 10 THEN <<d>> ELSE Append(C9_Decimal(n \div 10), d)

\* after a setter the key holds the value it was given
C9_SetterStores ==
    cfg_op.name \in {"set_instance_group", "set_dynamic_batching"}
      => /\ Contains(_config, C9_KeyOf(cfg_op.name))
         /\ GetItem(_config, C9_KeyOf(cfg_op.name)) = cfg_op.args[1]

\* C9 as stated: every accessor fails with ConfigFieldMissing exactly when
\* its key is absent, and otherwise returns the value stored under the key.
C9_AccessorsReturnStored ==
    /\ C9_SetterStores
    /\ cfg_op.name \in C9_Accessors
         => IF ~Contains(_config, C9_KeyOf(cfg_op.name))
            THEN cfg_out[1] = Raised("ConfigFieldMissing")
            ELSE cfg_out[1] = Returned(GetItem(_config, C9_KeyOf(cfg_op.name)))

\* C9, amended: every accessor fails with ConfigFieldMissing exactly when its
\* key is absent; name, platform, instance_group and dynamic_batching
\* otherwise return the value stored under the key (the last value set, for
\* the two settable fields); max_batch_size otherwise returns the integer the
\* stored text denotes, and fails with a conversion error, not with
\* ConfigFieldMissing, when the stored value denotes no integer.
C9_AccessorsAmended ==
    /\ C9_SetterStores
    /\ cfg_op.name \in C9_Accessors
         => LET key == C9_KeyOf(cfg_op.name)
                stored == GetItem(_config, key)
            IN  IF ~Contains(_config, key)
                THEN cfg_out[1] = Raised("ConfigFieldMissing")
                ELSE IF cfg_op.name # "max_batch_size"
                THEN cfg_out[1] = Returned(stored)
                ELSE IF /\ stored.tag = "Scalar"
                        /\ Len(stored.val) > 0
                        /\ \A i \in DOMAIN stored.val : stored.val[i] \in Digits
                THEN /\ Ok(cfg_out[1])
                     /\ cfg_out[1].ret[1].tag = "Int"
                     /\ C9_Decimal(cfg_out[1].ret[1].val[1]) = stored.val
                ELSE cfg_out[1].raised \in {"ValueError", "TypeError"}

\* max_batch_size has returned the integer 16 for the stored text "16", on a
\* config whose instance_group was set
C9_Witness ==
    /\ cfg_op.name = "max_batch_size"
    /\ cfg_out = <<Returned(IntValue(16))>>
    /\ Contains(_config, instance_group_key)
    /\ GetItem(_config, instance_group_key) \in SetterValues

-----------------------------------------------------------------------------
(* Claims about the parser (checked under SpecParse) *)

\* C8: parsing the textual form of a tree of Scalars, Lists and Messages
\* gives back the tree: parse(serialize(tree)) = tree.
C8_RoundTrip ==
    (parsed # <<>> /\ text = Serialize(tree)) => parsed[1] = Returned(tree)

C10_Count(s, c) == Len(SelectSeq(s, LAMBDA x : x = c))

\* the text ends while a "[" or a "{" is still open
C10_Unclosed(s) ==
    \/ C10_Count(s, "[") > C10_Count(s, "]")
    \/ C10_Count(s, "{") > C10_Count(s, "}")

\* C10: when the input ends while a closing bracket is still expected, parse
\* signals MalformedConfigText; it neither returns a tree nor runs forever.
C10_UnclosedSignalled ==
    (parsed # <<>> /\ C10_Unclosed(text))
      => parsed[1].raised = "MalformedConfigText"

\* C12: in dict context every line that contains ":" gives one entry, the
\* key being the text left of the first ":" trimmed and the value the text
\* right of it trimmed with every quote removed, and parsing resumes at the
\* next line; the four-field text parses to name = m1, platform = tensorrt,
\* max_batch_size = 8 and instance_group = a List of the Message {count: 2}.
C12_ColonLines ==
    parsed # <<>>
      => /\ (tree \in LineTrees
               /\ \E pad \in Paddings : text = WriteLines(tree.val, pad))
              => parsed[1] = Returned(tree)
         /\ text = ScenarioText => parsed[1] = Returned(ScenarioTree)

\* the text is the writing of a root Message that holds a nested Message
\* with an entry after it
C14_Case ==
    /\ parsed # <<>>
    /\ text = Serialize(tree)
    /\ \E i \in 1..(Len(tree.val) - 1) : tree.val[i][2].tag = "Message"

\* C14: after a "key {" line the nested Message is assigned to the key, its
\* "}" is consumed and the enclosing dict goes on with the next line: every
\* entry written after a nested Message block is in the parsed tree.
C14_NoEntryDroppedAfterMessage ==
    C14_Case
      => /\ Ok(parsed[1])
         /\ \A i \in DOMAIN tree.val :
               /\ Contains(parsed[1].ret[1].val, tree.val[i][1])
               /\ tree.val[i][2].tag = "Message"
                     => GetItem(parsed[1].ret[1].val, tree.val[i][1])
                          = tree.val[i][2]

\* the text is the writing of a root Message whose first entry is a List of
\* one or more scalar tokens
C15_Case ==
    /\ parsed # <<>>
    /\ text = Serialize(tree)
    /\ Len(tree.val) > 0
    /\ tree.val[1][2].tag = "List"
    /\ Len(tree.val[1][2].val) > 0
    /\ \A i \in DOMAIN tree.val[1][2].val : tree.val[1][2].val[i].tag = "Scalar"

\* C15: for a list of scalar tokens the list context terminates: it appends
\* the trimmed tokens in order and stops at the closing "]"; text after the
\* "]" is never appended to the list, and parse returns.
C15_ScalarListTerminates ==
    C15_Case
      => /\ Ok(parsed[1])
         /\ Contains(parsed[1].ret[1].val, tree.val[1][1])
         /\ GetItem(parsed[1].ret[1].val, tree.val[1][1]) = tree.val[1][2]

=============================================================================
